---- MODULE Spec2Model ----
(***************************************************************************)
(* Account / transaction ledger chaincode (Hyperledger Fabric shim v0.6).  *)
(* Strings are sequences of code points, the state store is a function     *)
(* from composite keys to records, and every handler is one atomic action. *)
(***************************************************************************)
EXTENDS Integers, Sequences, FiniteSets, TLC

\* store:  the state store, a function from keys to records
\* clock:  the number of Transaction records created so far
\* opened: the (customerID, accountID) pairs OpenAccount has stored
\* calls:  the number of invocations counted against MaxCalls
\* last:   the last invocation: handler, argument, error returned, Puts
\*         attempted, result, and the store as it was before
\* running: the invocations that are followed one store access at a time:
\*         for each its handler, argument, position, the records it has read
\*         and the error it returned
VARIABLES store, clock, opened, calls, last, running

vars == <<store, clock, opened, calls, last, running>>

----------------------------------------------------------------------------
(* Bounds of the model *)

\* width in bits of the two's-complement integers standing for Go's int64
IntBits == 3
\* number of handler invocations in one run
MaxCalls == 4
\* number of invocations explored after a ledger has been set up
MaxSteps == 1

----------------------------------------------------------------------------
(* Strings *)

\* "0", the separator of createCompositeKey
minKeyValue == <<48>>
\* utf8.MaxRune
MaxRune == 1114111

\* identifiers used as inputs: "c", "c0", "a", "0a" and the empty string
IdC == <<99>>
IdC0 == <<99, 48>>
IdA == <<97>>
Id0A == <<48, 97>>
Empty == <<>>

\* Go's string comparison x < y (bytewise, which follows code point order)
RECURSIVE StrLess(_, _)
StrLess(x, y) ==
    IF y = <<>> THEN FALSE
    ELSE IF x = <<>> THEN TRUE
    ELSE IF Head(x) # Head(y) THEN Head(x) < Head(y)
    ELSE StrLess(Tail(x), Tail(y))

IsPrefix(p, s) == Len(p) <= Len(s) /\ SubSeq(s, 1, Len(p)) = p

\* the keys of S as a sequence in ascending order (the order of an iterator)
RECURSIVE SortedKeys(_)
SortedKeys(S) ==
    IF S = {} THEN <<>>
    ELSE LET m == CHOOSE k \in S : \A o \in S : o = k \/ StrLess(k, o)
         IN <<m>> \o SortedKeys(S \ {m})

----------------------------------------------------------------------------
(* int64 arithmetic, scaled to IntBits bits *)

Modulus == 2 ^ IntBits
MaxInt == 2 ^ (IntBits - 1) - 1
MinInt == 0 - 2 ^ (IntBits - 1)
Wrap(x) == ((x - MinInt) % Modulus) + MinInt

IsDigit(ch) == ch >= 48 /\ ch <= 57

RECURSIVE DigitsValue(_, _)
DigitsValue(s, acc) ==
    IF s = <<>> THEN acc ELSE DigitsValue(Tail(s), 10 * acc + (Head(s) - 48))

\* strconv.ParseInt(s, 10, 64): an optional sign, then one or more digits,
\* and a value in range; anything else is an error
ParseInt(s) ==
    LET signed == s # <<>> /\ Head(s) \in {43, 45}
        digits == IF signed THEN Tail(s) ELSE s
        wellFormed == digits # <<>> /\ \A i \in 1..Len(digits) : IsDigit(digits[i])
        magnitude == DigitsValue(digits, 0)
        value == IF s # <<>> /\ Head(s) = 45 THEN 0 - magnitude ELSE magnitude
    IN  IF wellFormed /\ value >= MinInt /\ value <= MaxInt
        THEN [err |-> FALSE, value |-> value]
        ELSE [err |-> TRUE, value |-> 0]

----------------------------------------------------------------------------
(* The model package: records and their methods *)

AccountObjectType == <<65>>
TransactionObjectType == <<84>>

Debited == "Debited"
Credited == "Credited"
Failed == "Failed"
NoFailure == ""
AccountClosed == "AccountClosed"
InsufficientFunds == "InsufficientFunds"

Account(customerID, id, balance, closed) ==
    [kind |-> "Account", CustomerID |-> customerID, ID |-> id,
     Balance |-> balance, Closed |-> closed]

\* model.CreateAccount: decode the payload and validate it
CreateAccount(payload) ==
    IF payload.malformed \/ payload.CustomerID = Empty \/ payload.ID = Empty
       \/ payload.Balance < 0
    THEN [err |-> TRUE, account |-> Account(Empty, Empty, 0, FALSE)]
    ELSE [err |-> FALSE,
          account |-> Account(payload.CustomerID, payload.ID, payload.Balance, FALSE)]

Credit(a, amount) == [a EXCEPT !.Balance = Wrap(a.Balance + amount)]

Debit(a, amount) == [a EXCEPT !.Balance = Wrap(a.Balance - amount)]

\* Transfer.Validate: TRUE when the transfer is valid
Validate(t) ==
    /\ ~t.malformed
    /\ t.Amount > 0
    /\ t.FromCustomerID # Empty /\ t.FromAccountID # Empty
    /\ t.ToCustomerID # Empty /\ t.ToAccountID # Empty
    /\ <<t.FromCustomerID, t.FromAccountID>> # <<t.ToCustomerID, t.ToAccountID>>

\* the identifier of the n-th Transaction created: one letter, "d", "e", ...
TxnID(n) == <<100 + n>>

CreateTransaction(customerID, accountID, t, code, status, now) ==
    [kind |-> "Transaction", ID |-> TxnID(now), CustomerID |-> customerID,
     AccountID |-> accountID, CreatedAt |-> now, Amount |-> t.Amount,
     Fee |-> t.Fee, FromCustomerID |-> t.FromCustomerID,
     FromAccountID |-> t.FromAccountID, ToCustomerID |-> t.ToCustomerID,
     ToAccountID |-> t.ToAccountID, FailureCode |-> code, Status |-> status]

----------------------------------------------------------------------------
(* Key codec and state store *)

RECURSIVE createCompositeKeyFrom(_, _)
createCompositeKeyFrom(key, attributes) ==
    IF attributes = <<>> THEN key
    ELSE createCompositeKeyFrom(key \o Head(attributes) \o minKeyValue, Tail(attributes))

\* the same without the separator after each attribute
RECURSIVE Flatten(_)
Flatten(attributes) ==
    IF attributes = <<>> THEN <<>> ELSE Head(attributes) \o Flatten(Tail(attributes))
createCompositeKeyUnseparated(objectType, attributes) ==
    objectType \o minKeyValue \o Flatten(attributes)

createCompositeKey(objectType, attributes) ==
    createCompositeKeyFrom(objectType \o minKeyValue, attributes)

\* stub.GetState: the value under key, Nil when the key is absent
Nil == [kind |-> "nil"]
GetState(st, key) == IF key \in DOMAIN st THEN st[key] ELSE Nil

\* stub.RangeQueryState: the keys in [startKey, endKey), ascending
RangeQueryState(st, startKey, endKey) ==
    SortedKeys({k \in DOMAIN st : ~StrLess(k, startKey) /\ StrLess(k, endKey)})

partialCompositeKeyQuery(st, objectType, keys) ==
    LET partialCompositeKey == createCompositeKey(objectType, keys)
    IN  RangeQueryState(st, partialCompositeKey, partialCompositeKey \o <<MaxRune>>)

\* An invocation in progress: the store, the Puts attempted so far, and the
\* clock.  The n-th PutState of the invocation fails when n is in failing;
\* the handlers ignore its error and carry on.
Begin == [store |-> store, puts |-> <<>>, clock |-> clock]

PutState(ctx, key, value, failing) ==
    LET n == Len(ctx.puts) + 1
        ok == n \notin failing
    IN  [ctx EXCEPT
           !.store = IF ok
                     THEN [k \in DOMAIN ctx.store \cup {key} |->
                             IF k = key THEN value ELSE ctx.store[k]]
                     ELSE ctx.store,
           !.puts = Append(ctx.puts, [key |-> key, value |-> value, ok |-> ok])]

----------------------------------------------------------------------------
(* Handlers.  Each yields the invocation's final context and its outcome. *)

Outcome(ctx, err, ret) == [ctx |-> ctx, err |-> err, ret |-> ret]

AccountKey(customerID, accountID) ==
    createCompositeKey(AccountObjectType, <<customerID, accountID>>)

\* GetAccount: the stored bytes under the account's key (Nil when absent)
GetAccount(st, customerID, accountID) == GetState(st, AccountKey(customerID, accountID))

\* the values an iterator yields, in the order of its keys
RECURSIVE Drain(_, _)
Drain(st, keysIter) ==
    IF keysIter = <<>> THEN <<>>
    ELSE <<st[Head(keysIter)]>> \o Drain(st, Tail(keysIter))

\* GetAccountList: every value of the partial-key range query, in key order
GetAccountList(st, customerID) ==
    Drain(st, partialCompositeKeyQuery(st, AccountObjectType, <<customerID>>))

\* model.ByCreated: the order of Transactions by CreatedAt
ByCreatedLess(a, b) == a.CreatedAt < b.CreatedAt

\* sort.Reverse(model.ByCreated(...)): Less with its arguments swapped
ReverseLessUnswapped(a, b) == ByCreatedLess(a, b)
ReverseLess(a, b) == ByCreatedLess(b, a)

\* sort.Sort under ReverseLess
RECURSIVE SortInsert(_, _)
SortInsert(txn, sorted) ==
    IF sorted = <<>> THEN <<txn>>
    ELSE IF ReverseLess(Head(sorted), txn)
         THEN <<Head(sorted)>> \o SortInsert(txn, Tail(sorted))
         ELSE <<txn>> \o sorted
RECURSIVE Sort(_)
Sort(transactions) ==
    IF transactions = <<>> THEN <<>>
    ELSE SortInsert(Head(transactions), Sort(Tail(transactions)))

\* GetTransactionList: the values of the partial-key range query, sorted
GetTransactionList(st, customerID, accountID) ==
    Sort(Drain(st, partialCompositeKeyQuery(st, TransactionObjectType,
                                            <<customerID, accountID>>)))

OpenAccountCall(ctx, payload, failing) ==
    LET created == CreateAccount(payload)
        account == created.account
        key == AccountKey(account.CustomerID, account.ID)
    IN  IF created.err THEN Outcome(ctx, TRUE, Nil)
        ELSE Outcome(PutState(ctx, key, account, failing), FALSE, account)

\* a lookup miss of TopupAccount or CloseAccount: return the error, write
\* nothing
MissingAccountCreated(ctx, customerID, accountID, failing) ==
    Outcome(PutState(ctx, AccountKey(customerID, accountID),
                     Account(customerID, accountID, 0, FALSE), failing),
            FALSE, Account(customerID, accountID, 0, FALSE))
MissingAccount(ctx, customerID, accountID, failing) == Outcome(ctx, TRUE, Nil)

TopupAccountCall(ctx, customerID, accountID, amountArg, failing) ==
    LET accountData == GetAccount(ctx.store, customerID, accountID)
        parsed == ParseInt(amountArg)
        account == Credit(accountData, parsed.value)
        key == AccountKey(account.CustomerID, account.ID)
    IN  IF accountData = Nil THEN MissingAccount(ctx, customerID, accountID, failing)
        ELSE IF parsed.err THEN Outcome(ctx, TRUE, Nil)
        ELSE Outcome(PutState(ctx, key, account, failing), FALSE, account)

\* account.Closed = true
MarkClosedToggled(account) == [account EXCEPT !.Closed = ~account.Closed]
MarkClosed(account) == [account EXCEPT !.Closed = TRUE]

CloseAccountCall(ctx, customerID, accountID, failing) ==
    LET accountData == GetAccount(ctx.store, customerID, accountID)
        account == MarkClosed(accountData)
        key == AccountKey(account.CustomerID, account.ID)
    IN  IF accountData = Nil THEN MissingAccount(ctx, customerID, accountID, failing)
        ELSE Outcome(PutState(ctx, key, account, failing), FALSE, account)

\* the key of a Transaction record: its customer, account and own identifier
TransactionKeyWithoutID(txn) ==
    createCompositeKey(TransactionObjectType, <<txn.CustomerID, txn.AccountID>>)
TransactionKey(txn) ==
    createCompositeKey(TransactionObjectType, <<txn.CustomerID, txn.AccountID, txn.ID>>)

recordTransaction(ctx, customerID, accountID, t, code, status, failing) ==
    LET txn == CreateTransaction(customerID, accountID, t, code, status, ctx.clock)
        key == TransactionKey(txn)
    IN  [PutState(ctx, key, txn, failing) EXCEPT !.clock = ctx.clock + 1]

debitAccount(ctx, a, amount, failing) ==
    LET debited == Debit(a, amount)
    IN  PutState(ctx, AccountKey(debited.CustomerID, debited.ID), debited, failing)

creditAccount(ctx, a, amount, failing) ==
    LET credited == Credit(a, amount)
    IN  PutState(ctx, AccountKey(credited.CustomerID, credited.ID), credited, failing)

\* a lookup miss of TransferMoney: return the error, write nothing
NotFoundResultNoError(ctx) == Outcome(ctx, FALSE, Nil)
NotFoundResult(ctx) == Outcome(ctx, TRUE, Nil)

\* the closed checks of TransferMoney
DestinationClosedUnchecked(toAccount) == FALSE
DestinationClosed(toAccount) == toAccount.Closed

\* the account a transfer into a closed account is recorded against
ClosedDestinationAsSource(fromAccount, toAccount) == fromAccount
ClosedDestination(fromAccount, toAccount) == toAccount

\* the floor check of TransferMoney: fromAccount.Balance - t.Amount < 0
InsufficientFundsCheckNoAmount(fromAccount, t) == fromAccount.Balance < 0
InsufficientFundsCheck(fromAccount, t) == Wrap(fromAccount.Balance - t.Amount) < 0

\* the amount debited from the source: t.Amount + t.Fee
DebitAmountWithoutFee(t) == t.Amount
DebitAmount(t) == Wrap(t.Amount + t.Fee)

\* the amount credited to the destination: t.Amount
CreditAmount(t) == t.Amount

\* the four writes of a transfer that passed every check
SuccessPathCreditFirst(ctx, fromAccount, toAccount, t, failing) ==
    LET c1 == creditAccount(ctx, toAccount, CreditAmount(t), failing)
        c2 == recordTransaction(c1, toAccount.CustomerID, toAccount.ID, t,
                                NoFailure, Credited, failing)
        c3 == debitAccount(c2, fromAccount, DebitAmount(t), failing)
    IN  recordTransaction(c3, fromAccount.CustomerID, fromAccount.ID, t,
                          NoFailure, Debited, failing)
SuccessPath(ctx, fromAccount, toAccount, t, failing) ==
    LET c1 == debitAccount(ctx, fromAccount, DebitAmount(t), failing)
        c2 == recordTransaction(c1, fromAccount.CustomerID, fromAccount.ID, t,
                                NoFailure, Debited, failing)
        c3 == creditAccount(c2, toAccount, CreditAmount(t), failing)
    IN  recordTransaction(c3, toAccount.CustomerID, toAccount.ID, t,
                          NoFailure, Credited, failing)

TransferMoneyCall(ctx, t, failing) ==
    LET fromAccount == GetAccount(ctx.store, t.FromCustomerID, t.FromAccountID)
        toAccount == GetAccount(ctx.store, t.ToCustomerID, t.ToAccountID)
        c4 == SuccessPath(ctx, fromAccount, toAccount, t, failing)
    IN  IF ~Validate(t) THEN Outcome(ctx, TRUE, Nil)
        ELSE IF fromAccount = Nil THEN NotFoundResult(ctx)
        ELSE IF toAccount = Nil THEN NotFoundResult(ctx)
        ELSE IF fromAccount.Closed
        THEN Outcome(recordTransaction(ctx, fromAccount.CustomerID, fromAccount.ID, t,
                                       AccountClosed, Failed, failing), TRUE, Nil)
        ELSE IF DestinationClosed(toAccount)
        THEN Outcome(recordTransaction(ctx, ClosedDestination(fromAccount, toAccount).CustomerID,
                                       ClosedDestination(fromAccount, toAccount).ID, t,
                                       AccountClosed, Failed, failing), TRUE, Nil)
        ELSE IF InsufficientFundsCheck(fromAccount, t)
        THEN Outcome(recordTransaction(ctx, fromAccount.CustomerID, fromAccount.ID, t,
                                       InsufficientFunds, Failed, failing), TRUE, Nil)
        ELSE Outcome(c4, FALSE, Nil)

----------------------------------------------------------------------------
(* Inputs *)

AccountRefs == {<<IdC, IdA>>, <<IdC, Id0A>>, <<IdC0, IdA>>}
CustomerIDs == {IdC, IdC0}

\* the account JSON of OpenAccount, decoded
Payload(ref, balance) ==
    [malformed |-> FALSE, CustomerID |-> ref[1], ID |-> ref[2], Balance |-> balance]
MalformedPayload ==
    [malformed |-> TRUE, CustomerID |-> Empty, ID |-> Empty, Balance |-> 0]
OpeningBalances == {0, 1, 2}
ValidPayloads == {Payload(ref, b) : ref \in AccountRefs, b \in OpeningBalances}
Payloads ==
    ValidPayloads
    \cup {Payload(<<Empty, IdA>>, 0), Payload(<<IdC, Empty>>, 0),
          Payload(<<IdC, IdA>>, -1), MalformedPayload}

\* the third argument of TopupAccount: "1", "-1", "0", "+2", "x" and "9"
AmountArgs == {<<49>>, <<45, 49>>, <<48>>, <<43, 50>>, <<120>>, <<57>>}

Transfer(from, to, amount, fee) ==
    [malformed |-> FALSE, FromCustomerID |-> from[1], FromAccountID |-> from[2],
     ToCustomerID |-> to[1], ToAccountID |-> to[2], Amount |-> amount, Fee |-> fee]
\* a payload that does not decode leaves the Transfer at its zero value
MalformedTransfer ==
    [malformed |-> TRUE, FromCustomerID |-> Empty, FromAccountID |-> Empty,
     ToCustomerID |-> Empty, ToAccountID |-> Empty, Amount |-> 0, Fee |-> 0]
Amounts == {1, 2}
Fees == {0, 1}
Transfers ==
    {tr \in {Transfer(f, t, a, fee) : f \in AccountRefs, t \in AccountRefs,
                                      a \in Amounts, fee \in Fees} :
        <<tr.FromCustomerID, tr.FromAccountID>> # <<tr.ToCustomerID, tr.ToAccountID>>}
    \cup {Transfer(<<IdC, IdA>>, <<IdC0, IdA>>, 0, 0),
          Transfer(<<IdC, IdA>>, <<IdC0, IdA>>, -1, 0),
          Transfer(<<IdC, IdA>>, <<IdC, IdA>>, 1, 0),
          Transfer(<<Empty, IdA>>, <<IdC, IdA>>, 1, 0),
          Transfer(<<IdC, IdA>>, <<IdC0, Empty>>, 1, 0),
          MalformedTransfer}

\* which of an invocation's Puts fail: none, or the n-th
MaxPuts == 4
Failures == {{}} \cup {{n} : n \in 1..MaxPuts}

----------------------------------------------------------------------------
(* Actions *)

Init ==
    /\ store = <<>>
    /\ clock = 0
    /\ opened = {}
    /\ calls = 0
    /\ last = [op |-> "Init", arg |-> Nil, err |-> FALSE, puts |-> <<>>,
               ret |-> Nil, pre |-> <<>>]
    /\ running = <<>>

\* an invocation runs to its end once every invocation that is followed
\* access by access has returned or stopped
Finish(op, arg, failing, out) ==
    /\ \A i \in DOMAIN running : running[i].pc \in {"Done", "Stopped"}
    /\ UNCHANGED running
    /\ calls < MaxCalls
    /\ \A n \in failing : n <= Len(out.ctx.puts)
    /\ calls' = calls + 1
    /\ store' = out.ctx.store
    /\ clock' = out.ctx.clock
    /\ last' = [op |-> op, arg |-> arg, err |-> out.err, puts |-> out.ctx.puts,
                ret |-> out.ret, pre |-> store]

OpenAccount ==
    \E payload \in Payloads, failing \in Failures :
        LET out == OpenAccountCall(Begin, payload, failing)
        IN  /\ Finish("OpenAccount", payload, failing, out)
            /\ opened' = IF out.err \/ ~out.ctx.puts[1].ok THEN opened
                         ELSE opened \cup {<<payload.CustomerID, payload.ID>>}

TopupAccount ==
    \E ref \in AccountRefs, amountArg \in AmountArgs, failing \in Failures :
        /\ Finish("TopupAccount",
                  [CustomerID |-> ref[1], ID |-> ref[2], amount |-> amountArg], failing,
                  TopupAccountCall(Begin, ref[1], ref[2], amountArg, failing))
        /\ UNCHANGED opened

CloseAccount ==
    \E ref \in AccountRefs, failing \in Failures :
        /\ Finish("CloseAccount", [CustomerID |-> ref[1], ID |-> ref[2]], failing,
                  CloseAccountCall(Begin, ref[1], ref[2], failing))
        /\ UNCHANGED opened

TransferMoney ==
    \E t \in Transfers, failing \in Failures :
        LET out == TransferMoneyCall(Begin, t, failing)
        IN  /\ Finish("TransferMoney", t, failing, out)
            /\ UNCHANGED opened

QueryAccount ==
    \E ref \in AccountRefs :
        /\ Finish("GetAccount", [CustomerID |-> ref[1], ID |-> ref[2]], {},
                  Outcome(Begin, FALSE, GetAccount(store, ref[1], ref[2])))
        /\ UNCHANGED opened

QueryAccountList ==
    \E customerID \in CustomerIDs :
        /\ Finish("GetAccountList", [CustomerID |-> customerID], {},
                  Outcome(Begin, FALSE, GetAccountList(store, customerID)))
        /\ UNCHANGED opened

QueryTransactionList ==
    \E ref \in AccountRefs :
        /\ Finish("GetTransactionList", [CustomerID |-> ref[1], ID |-> ref[2]], {},
                  Outcome(Begin, FALSE, GetTransactionList(store, ref[1], ref[2])))
        /\ UNCHANGED opened

Next ==
    \/ OpenAccount
    \/ TopupAccount
    \/ CloseAccount
    \/ TransferMoney
    \/ QueryAccount
    \/ QueryAccountList
    \/ QueryTransactionList

Spec == Init /\ [][Next]_vars

----------------------------------------------------------------------------
(* The handlers on a ledger that is already set up.  The ledger is what     *)
(* OpenAccount, called with each payload of a sequence, and then            *)
(* CloseAccount, called for each reference of a set, leave in the store;    *)
(* MaxSteps further invocations follow.                                     *)

RECURSIVE OpenAll(_, _)
OpenAll(ctx, payloads) ==
    IF payloads = <<>> THEN ctx
    ELSE OpenAll(OpenAccountCall(ctx, Head(payloads), {}).ctx, Tail(payloads))

RECURSIVE CloseAll(_, _)
CloseAll(ctx, refs) ==
    IF refs = {} THEN ctx
    ELSE LET ref == CHOOSE r \in refs : TRUE
         IN  CloseAll(CloseAccountCall(ctx, ref[1], ref[2], {}).ctx, refs \ {ref})

Setups ==
    {<<>>} \cup {<<p>> : p \in ValidPayloads}
    \cup {<<p, q>> : p \in ValidPayloads, q \in ValidPayloads}

InitLedger ==
    \E payloads \in Setups, closing \in SUBSET AccountRefs :
        LET fresh == [store |-> <<>>, puts |-> <<>>, clock |-> 0]
            ledger == CloseAll(OpenAll(fresh, payloads), closing)
        IN  /\ store = ledger.store
            /\ clock = ledger.clock
            /\ opened = {<<payloads[i].CustomerID, payloads[i].ID>> :
                            i \in 1..Len(payloads)}
            /\ calls = MaxCalls - MaxSteps
            /\ last = [op |-> "Init", arg |-> Nil, err |-> FALSE, puts |-> <<>>,
                       ret |-> Nil, pre |-> ledger.store]
            /\ running = <<>>

SpecLedger == InitLedger /\ [][Next]_vars

----------------------------------------------------------------------------
(* The handlers on a ledger with a transaction log.  The ledger is what two *)
(* OpenAccount calls and then up to two TransferMoney calls leave in the    *)
(* store; MaxSteps further invocations follow.                              *)

RECURSIVE TransferAll(_, _)
TransferAll(ctx, transfers) ==
    IF transfers = <<>> THEN ctx
    ELSE TransferAll(TransferMoneyCall(ctx, Head(transfers), {}).ctx, Tail(transfers))

LogPayloads == {Payload(ref, 2) : ref \in AccountRefs}
LogTransfers ==
    {Transfer(<<IdC, IdA>>, <<IdC0, IdA>>, 1, 1), Transfer(<<IdC0, IdA>>, <<IdC, IdA>>, 1, 1),
     Transfer(<<IdC, Id0A>>, <<IdC, IdA>>, 1, 1)}
LogSetups ==
    {<<>>} \cup {<<tr>> : tr \in LogTransfers}
    \cup {<<tr, ts>> : tr \in LogTransfers, ts \in LogTransfers}

InitLog ==
    \E p \in LogPayloads, q \in LogPayloads, transfers \in LogSetups :
        LET fresh == [store |-> <<>>, puts |-> <<>>, clock |-> 0]
            ledger == TransferAll(OpenAll(fresh, <<p, q>>), transfers)
        IN  /\ store = ledger.store
            /\ clock = ledger.clock
            /\ opened = {<<p.CustomerID, p.ID>>, <<q.CustomerID, q.ID>>}
            /\ calls = MaxCalls - MaxSteps
            /\ last = [op |-> "Init", arg |-> Nil, err |-> FALSE, puts |-> <<>>,
                       ret |-> Nil, pre |-> ledger.store]
            /\ running = <<>>

SpecLog == InitLog /\ [][Next]_vars

----------------------------------------------------------------------------
(* TransferMoney and TopupAccount followed one store access at a time: each *)
(* GetState and each PutState of the handler is a step of its own, so that  *)
(* an invocation can stop between two accesses and two invocations can      *)
(* interleave.                                                              *)

Invocation(op, arg) ==
    [op |-> op, arg |-> arg,
     pc |-> IF op = "TransferMoney" THEN "GetFrom" ELSE "GetAccount",
     fromAccount |-> Nil, toAccount |-> Nil, account |-> Nil,
     err |-> FALSE, at |-> "Start"]

Returned(inv, err) == [inv EXCEPT !.pc = "Done", !.err = err]

\* the record a write starts from: the copy the invocation decoded when it
\* read the account, not what the store holds by now
WriteBaseReread(read, st) == GetState(st, AccountKey(read.CustomerID, read.ID))
WriteBase(read, st) == read

\* one access by invocation i: inv is the invocation after it, ctx the store
Step(i, inv, ctx) ==
    /\ running' = [running EXCEPT ![i] = inv]
    /\ store' = ctx.store
    /\ clock' = ctx.clock
    /\ UNCHANGED <<opened, calls, last>>

StepGetFrom ==
    \E i \in DOMAIN running :
    /\ running[i].pc = "GetFrom"
    /\ LET inv == running[i]
           t == inv.arg
           fromAccount == GetAccount(store, t.FromCustomerID, t.FromAccountID)
       IN  Step(i, IF ~Validate(t) \/ fromAccount = Nil THEN Returned(inv, TRUE)
                   ELSE [inv EXCEPT !.fromAccount = fromAccount, !.pc = "GetTo"],
                Begin)

StepGetTo ==
    \E i \in DOMAIN running :
    /\ running[i].pc = "GetTo"
    /\ LET inv == running[i]
           t == inv.arg
           toAccount == GetAccount(store, t.ToCustomerID, t.ToAccountID)
           rejected == \/ inv.fromAccount.Closed
                       \/ DestinationClosed(toAccount)
                       \/ InsufficientFundsCheck(inv.fromAccount, t)
       IN  Step(i, IF toAccount = Nil THEN Returned(inv, TRUE)
                   ELSE [inv EXCEPT !.toAccount = toAccount,
                                    !.pc = IF rejected THEN "RecordFailed"
                                           ELSE "DebitAccount"],
                Begin)

StepRecordFailed ==
    \E i \in DOMAIN running :
    /\ running[i].pc = "RecordFailed"
    /\ LET inv == running[i]
           t == inv.arg
           from == inv.fromAccount
           to == inv.toAccount
       IN  Step(i, Returned(inv, TRUE),
                IF from.Closed
                THEN recordTransaction(Begin, from.CustomerID, from.ID, t,
                                       AccountClosed, Failed, {})
                ELSE IF DestinationClosed(to)
                THEN recordTransaction(Begin, ClosedDestination(from, to).CustomerID,
                                       ClosedDestination(from, to).ID, t,
                                       AccountClosed, Failed, {})
                ELSE recordTransaction(Begin, from.CustomerID, from.ID, t,
                                       InsufficientFunds, Failed, {}))

StepDebit ==
    \E i \in DOMAIN running :
    /\ running[i].pc = "DebitAccount"
    /\ LET inv == running[i]
       IN  Step(i, [inv EXCEPT !.pc = "RecordDebited"],
                debitAccount(Begin, WriteBase(inv.fromAccount, store),
                             DebitAmount(inv.arg), {}))

StepRecordDebited ==
    \E i \in DOMAIN running :
    /\ running[i].pc = "RecordDebited"
    /\ LET inv == running[i]
       IN  Step(i, [inv EXCEPT !.pc = "CreditAccount"],
                recordTransaction(Begin, inv.fromAccount.CustomerID, inv.fromAccount.ID,
                                  inv.arg, NoFailure, Debited, {}))

StepCredit ==
    \E i \in DOMAIN running :
    /\ running[i].pc = "CreditAccount"
    /\ LET inv == running[i]
       IN  Step(i, [inv EXCEPT !.pc = "RecordCredited"],
                creditAccount(Begin, WriteBase(inv.toAccount, store),
                              CreditAmount(inv.arg), {}))

StepRecordCredited ==
    \E i \in DOMAIN running :
    /\ running[i].pc = "RecordCredited"
    /\ LET inv == running[i]
       IN  Step(i, Returned(inv, FALSE),
                recordTransaction(Begin, inv.toAccount.CustomerID, inv.toAccount.ID,
                                  inv.arg, NoFailure, Credited, {}))

StepTopupGet ==
    \E i \in DOMAIN running :
    /\ running[i].pc = "GetAccount"
    /\ LET inv == running[i]
           accountData == GetAccount(store, inv.arg.CustomerID, inv.arg.ID)
       IN  Step(i, IF accountData = Nil \/ ParseInt(inv.arg.amount).err
                   THEN Returned(inv, TRUE)
                   ELSE [inv EXCEPT !.account = accountData, !.pc = "PutAccount"],
                Begin)

StepTopupPut ==
    \E i \in DOMAIN running :
    /\ running[i].pc = "PutAccount"
    /\ LET inv == running[i]
           account == Credit(WriteBase(inv.account, store), ParseInt(inv.arg.amount).value)
       IN  Step(i, Returned(inv, FALSE),
                PutState(Begin, AccountKey(account.CustomerID, account.ID), account, {}))

\* the process running invocation i fails: the invocation makes no further
\* access and returns nothing
Stop ==
    \E i \in DOMAIN running :
    /\ running[i].pc \notin {"Done", "Stopped"}
    /\ running' = [running EXCEPT
                     ![i] = [running[i] EXCEPT !.pc = "Stopped", !.at = running[i].pc]]
    /\ UNCHANGED <<store, clock, opened, calls, last>>

\* the accounts ("c","a") and ("c0","a"), whose keys differ
StepLedgers ==
    {OpenAll([store |-> <<>>, puts |-> <<>>, clock |-> 0],
             <<Payload(<<IdC, IdA>>, b), Payload(<<IdC0, IdA>>, 0)>>) : b \in {1, 2}}
StepTransfers ==
    {Transfer(<<IdC, IdA>>, <<IdC0, IdA>>, 1, fee) : fee \in Fees}
    \cup {Transfer(<<IdC0, IdA>>, <<IdC, IdA>>, 1, 0)}
StepTopups ==
    {[CustomerID |-> IdC, ID |-> IdA, amount |-> amountArg] :
        amountArg \in {<<49>>, <<43, 50>>}}

InitStepped(invocations) ==
    /\ \E ledger \in StepLedgers :
          /\ store = ledger.store
          /\ last = [op |-> "Init", arg |-> Nil, err |-> FALSE, puts |-> <<>>,
                     ret |-> Nil, pre |-> ledger.store]
    /\ clock = 0
    /\ opened = {<<IdC, IdA>>, <<IdC0, IdA>>}
    /\ calls = MaxCalls - MaxSteps
    /\ running \in invocations

\* one transfer that may stop at any point, and invocations after it
InitCrash ==
    InitStepped({<<Invocation("TransferMoney", t)>> : t \in StepTransfers})

NextCrash ==
    \/ StepGetFrom
    \/ StepGetTo
    \/ StepRecordFailed
    \/ StepDebit
    \/ StepRecordDebited
    \/ StepCredit
    \/ StepRecordCredited
    \/ Stop
    \/ OpenAccount
    \/ TopupAccount
    \/ CloseAccount
    \/ TransferMoney
    \/ QueryAccount
    \/ QueryAccountList
    \/ QueryTransactionList

SpecCrash == InitCrash /\ [][NextCrash]_vars

\* two invocations whose accesses interleave
StepRequests ==
    {Invocation("TransferMoney", t) : t \in StepTransfers}
    \cup {Invocation("TopupAccount", a) : a \in StepTopups}

InitInterleaved ==
    InitStepped({<<a, b>> : a \in StepRequests, b \in StepRequests})

NextInterleaved ==
    \/ StepGetFrom
    \/ StepGetTo
    \/ StepRecordFailed
    \/ StepDebit
    \/ StepRecordDebited
    \/ StepCredit
    \/ StepRecordCredited
    \/ StepTopupGet
    \/ StepTopupPut

SpecInterleaved == InitInterleaved /\ [][NextInterleaved]_vars

----------------------------------------------------------------------------
(* The key codec on its own: two attribute tuples and their keys *)

MaxAttrs == 2
IdCA == <<99, 97>>
KeyIds == {IdC, IdC0, IdA, Id0A, IdCA}
Tuples == UNION {[1..m -> KeyIds] : m \in 0..MaxAttrs}

InitKey ==
    /\ store = <<>>
    /\ clock = 0
    /\ opened = {}
    /\ calls = 0
    /\ running = <<>>
    /\ \E a \in Tuples, b \in Tuples :
          last = [op |-> "Init", arg |-> [a |-> a, b |-> b], err |-> FALSE,
                  puts |-> <<>>, ret |-> Nil, pre |-> <<>>]

BuildKeys ==
    /\ last.op = "Init"
    /\ last' = [last EXCEPT
                  !.op = "createCompositeKey",
                  !.ret = [a |-> createCompositeKey(AccountObjectType, last.arg.a),
                           b |-> createCompositeKey(AccountObjectType, last.arg.b)]]
    /\ UNCHANGED <<store, clock, opened, calls, running>>

NextKey == BuildKeys

SpecKey == InitKey /\ [][NextKey]_vars

----------------------------------------------------------------------------
(* Observations of the last invocation *)

IsAccountKey(st, k) == k \in DOMAIN st /\ st[k].kind = "Account"

\* the balance stored under every account key
Balances(st) == [k \in {x \in DOMAIN st : st[x].kind = "Account"} |-> st[k].Balance]

WasTransfer == last.op = "TransferMoney"
PreFrom == GetAccount(last.pre, last.arg.FromCustomerID, last.arg.FromAccountID)
PreTo == GetAccount(last.pre, last.arg.ToCustomerID, last.arg.ToAccountID)
PostFrom == GetAccount(store, last.arg.FromCustomerID, last.arg.FromAccountID)
PostTo == GetAccount(store, last.arg.ToCustomerID, last.arg.ToAccountID)

\* a valid transfer whose two accounts were both found
BetweenExisting == WasTransfer /\ Validate(last.arg) /\ PreFrom # Nil /\ PreTo # Nil

\* Puts of the last invocation that were applied, by kind of record
AppliedPuts(kind) ==
    Cardinality({i \in 1..Len(last.puts) :
                    last.puts[i].ok /\ last.puts[i].value.kind = kind})

\* the invocation attempted exactly one Put: a Failed Transaction with this
\* code, which is in the store if the Put was applied
RecordedFailure(code) ==
    /\ Len(last.puts) = 1
    /\ last.puts[1].value.kind = "Transaction"
    /\ last.puts[1].value.Status = Failed
    /\ last.puts[1].value.FailureCode = code
    /\ last.puts[1].ok => GetState(store, last.puts[1].key) = last.puts[1].value

----------------------------------------------------------------------------
(* Claims *)

\* C1: after every TransferMoney that returns success, the source's stored
\* balance is its balance before minus (amount + fee) and the destination's
\* is its balance before plus amount.
C1_TransferArithmetic ==
    (WasTransfer /\ ~last.err) =>
        /\ PostFrom.Balance = Wrap(PreFrom.Balance - (last.arg.Amount + last.arg.Fee))
        /\ PostTo.Balance = Wrap(PreTo.Balance + last.arg.Amount)

\* C2: a valid transfer between two existing accounts of which the source or
\* the destination is closed returns an error, records one Failed
\* transaction with code AccountClosed, and leaves every balance unchanged.
C2_ClosedRejected ==
    (BetweenExisting /\ (PreFrom.Closed \/ PreTo.Closed)) =>
        /\ last.err
        /\ RecordedFailure(AccountClosed)
        /\ Balances(store) = Balances(last.pre)

C2_Witness ==
    /\ BetweenExisting
    /\ ~PreFrom.Closed /\ PreTo.Closed
    /\ PreFrom.Balance >= last.arg.Amount
    /\ last.puts[1].ok

\* C3 as stated: a valid transfer between two existing accounts whose source
\* balance is less than amount fails with code InsufficientFunds and leaves
\* every balance unchanged.
C3_Original ==
    (BetweenExisting /\ PreFrom.Balance < last.arg.Amount) =>
        /\ last.err
        /\ RecordedFailure(InsufficientFunds)
        /\ Balances(store) = Balances(last.pre)

\* C3 as amended: the same, for two accounts that are both open and a
\* difference balance - amount that stays within the signed integer range.
C3_InsufficientFundsRejected ==
    (/\ BetweenExisting
     /\ ~PreFrom.Closed /\ ~PreTo.Closed
     /\ PreFrom.Balance < last.arg.Amount
     /\ PreFrom.Balance - last.arg.Amount >= MinInt) =>
        /\ last.err
        /\ RecordedFailure(InsufficientFunds)
        /\ Balances(store) = Balances(last.pre)

C3_Witness ==
    /\ BetweenExisting
    /\ ~PreFrom.Closed /\ ~PreTo.Closed
    /\ PreFrom.Balance < last.arg.Amount
    /\ PreFrom.Balance - last.arg.Amount >= MinInt
    /\ PreFrom.Balance > 0
    /\ last.puts[1].ok

\* C4: every TransferMoney ends in one of three write patterns: two Account
\* and two Transaction writes on success; one Transaction write and no
\* Account write on rejection; no write at all on a validation or lookup
\* failure.
C4_WritePatterns ==
    WasTransfer =>
        \/ ~last.err /\ AppliedPuts("Account") = 2 /\ AppliedPuts("Transaction") = 2
        \/ last.err /\ AppliedPuts("Account") = 0 /\ AppliedPuts("Transaction") = 1
        \/ last.err /\ AppliedPuts("Account") = 0 /\ AppliedPuts("Transaction") = 0

\* C5: GetAccountList(c) returns exactly the accounts opened with
\* customerID = c, and no account of another customer.
C5_ListExactlyOwnAccounts ==
    last.op = "GetAccountList" =>
        {<<last.ret[i].CustomerID, last.ret[i].ID>> : i \in 1..Len(last.ret)}
            = {ref \in opened : ref[1] = last.arg.CustomerID}

SeparatorFree(attributes) ==
    \A i \in 1..Len(attributes) :
        \A j \in 1..Len(attributes[i]) : <<attributes[i][j]>> # minKeyValue

C7_ClosedBalanceFrozen ==
    last.op \in {"TopupAccount", "TransferMoney"} =>
        \A k \in DOMAIN last.pre :
            (IsAccountKey(last.pre, k) /\ last.pre[k].Closed) =>
                IsAccountKey(store, k) /\ store[k].Balance = last.pre[k].Balance

\* C8: OpenAccount, CloseAccount and the read operations never change the
\* balance of an account that already exists.
C8_OnlyCreditDebitChangeBalance ==
    last.op \in {"OpenAccount", "CloseAccount", "GetAccount", "GetAccountList"} =>
        \A k \in DOMAIN last.pre :
            IsAccountKey(last.pre, k) =>
                IsAccountKey(store, k) /\ store[k].Balance = last.pre[k].Balance

\* C9: TopupAccount returns an error and writes nothing when its amount
\* argument is not a well-formed positive integer.
C9_TopupRejectsNonPositive ==
    (/\ last.op = "TopupAccount"
     /\ ParseInt(last.arg.amount).err \/ ParseInt(last.arg.amount).value <= 0) =>
        last.err /\ last.puts = <<>> /\ store = last.pre

\* C10: a TransferMoney that fails validation, or whose source or
\* destination account does not exist, returns an error and attempts no
\* write at all.
C10_NoWriteOnValidationOrLookupFailure ==
    (WasTransfer /\ (~Validate(last.arg) \/ PreFrom = Nil \/ PreTo = Nil)) =>
        last.err /\ last.puts = <<>> /\ store = last.pre

C10_Witness ==
    /\ WasTransfer
    /\ Validate(last.arg)
    /\ PreFrom # Nil /\ PreTo = Nil
    /\ last.pre # <<>>

\* C11: Transaction records are append-only: every Transaction record that
\* was in the store before an invocation is still there afterwards under the
\* same key with the same content, and every Transaction Put of the
\* invocation goes to a key that held nothing before and is written once.
IsTransactionKey(st, k) == k \in DOMAIN st /\ st[k].kind = "Transaction"
C11_TransactionsAppendOnly ==
    /\ \A k \in DOMAIN last.pre :
          IsTransactionKey(last.pre, k) => k \in DOMAIN store /\ store[k] = last.pre[k]
    /\ \A i \in 1..Len(last.puts) :
          last.puts[i].value.kind = "Transaction" =>
              /\ last.puts[i].key \notin DOMAIN last.pre
              /\ \A j \in 1..Len(last.puts) : j # i => last.puts[j].key # last.puts[i].key
\* a transfer records a Transaction on an account that already had one
C11_Witness ==
    /\ WasTransfer
    /\ \E i \in 1..Len(last.puts), k \in DOMAIN last.pre :
          /\ last.puts[i].ok
          /\ last.puts[i].value.kind = "Transaction"
          /\ IsTransactionKey(last.pre, k)
          /\ last.pre[k].CustomerID = last.puts[i].value.CustomerID
          /\ last.pre[k].AccountID = last.puts[i].value.AccountID
          /\ store[k] = last.pre[k]
          /\ store[last.puts[i].key] = last.puts[i].value

\* C12: when a Put of OpenAccount, TopupAccount, CloseAccount or
\* TransferMoney fails, the invocation returns an error and attempts no
\* further Put.
C12_PutFailureStopsWithError ==
    \A i \in 1..Len(last.puts) :
        ~last.puts[i].ok => last.err /\ Len(last.puts) = i

\* C13: CloseAccount is idempotent: on an existing account it succeeds and
\* Puts the record with closed = true and everything else as it was, so on
\* an account that is already closed it succeeds and leaves the store as it
\* was after the first call.
WasClose == last.op = "CloseAccount"
PreAccount == GetAccount(last.pre, last.arg.CustomerID, last.arg.ID)
C13_CloseIdempotent ==
    (WasClose /\ PreAccount # Nil) =>
        /\ ~last.err
        /\ Len(last.puts) = 1
        /\ last.puts[1].key = AccountKey(last.arg.CustomerID, last.arg.ID)
        /\ last.puts[1].value = Account(PreAccount.CustomerID, PreAccount.ID,
                                        PreAccount.Balance, TRUE)
        /\ last.ret = last.puts[1].value
        /\ PreAccount.Closed => store = last.pre
        /\ last.puts[1].ok =>
              store = [k \in DOMAIN last.pre |->
                         IF k = last.puts[1].key THEN last.puts[1].value ELSE last.pre[k]]
\* the second CloseAccount of an account: it was closed already, and the Put
\* was applied
C13_Witness ==
    /\ WasClose /\ PreAccount # Nil /\ PreAccount.Closed
    /\ ~last.err /\ last.puts[1].ok /\ store = last.pre

\* C14: GetTransactionList(customerID, accountID) returns the Transaction
\* records stored under the account's key prefix, each once, ordered by
\* createdAt descending: every element's createdAt is greater than or equal
\* to that of the element after it.
WasTransactionList == last.op = "GetTransactionList"
TransactionPrefix ==
    createCompositeKey(TransactionObjectType, <<last.arg.CustomerID, last.arg.ID>>)
C14_ListNewestFirst ==
    WasTransactionList =>
        /\ \A i \in 1..(Len(last.ret) - 1) :
              last.ret[i].CreatedAt >= last.ret[i + 1].CreatedAt
        /\ {last.ret[i] : i \in 1..Len(last.ret)}
              = {store[k] : k \in {x \in DOMAIN store : IsPrefix(TransactionPrefix, x)}}
        /\ Len(last.ret)
              = Cardinality({x \in DOMAIN store : IsPrefix(TransactionPrefix, x)})
\* a list of two or more records, the newest first, which the range query
\* yielded oldest first
C14_Witness ==
    /\ WasTransactionList
    /\ Len(last.ret) >= 2
    /\ last.ret[1].CreatedAt > last.ret[2].CreatedAt
    /\ StrLess(TransactionKey(last.ret[2]), TransactionKey(last.ret[1]))

\* C15: the single Failed Transaction of a rejected transfer is keyed under
\* the account that caused the rejection, the source check first: under the
\* source with code AccountClosed when the source is closed (whatever the
\* destination and the funds), under the destination with code AccountClosed
\* when only the destination is closed, and under the source with code
\* InsufficientFunds when neither is closed, which happens only when the
\* source balance is below the amount.
SourcePrefix ==
    createCompositeKey(TransactionObjectType,
                       <<last.arg.FromCustomerID, last.arg.FromAccountID>>)
DestinationPrefix ==
    createCompositeKey(TransactionObjectType,
                       <<last.arg.ToCustomerID, last.arg.ToAccountID>>)
RejectedRecord(prefix, account, code) ==
    /\ Len(last.puts) = 1
    /\ IsPrefix(prefix, last.puts[1].key)
    /\ last.puts[1].key = TransactionKey(last.puts[1].value)
    /\ last.puts[1].value.kind = "Transaction"
    /\ last.puts[1].value.CustomerID = account.CustomerID
    /\ last.puts[1].value.AccountID = account.ID
    /\ last.puts[1].value.Status = Failed
    /\ last.puts[1].value.FailureCode = code
C15_FailedRecordedAgainstCause ==
    (BetweenExisting /\ last.err) =>
        /\ PreFrom.Closed => RejectedRecord(SourcePrefix, PreFrom, AccountClosed)
        /\ (~PreFrom.Closed /\ PreTo.Closed) =>
              RejectedRecord(DestinationPrefix, PreTo, AccountClosed)
        /\ (~PreFrom.Closed /\ ~PreTo.Closed) =>
              /\ RejectedRecord(SourcePrefix, PreFrom, InsufficientFunds)
              /\ PreFrom.Balance < last.arg.Amount
\* a transfer into a closed account from an open one that lacks the funds
\* as well, the two accounts under different key prefixes
C15_Witness ==
    /\ BetweenExisting /\ last.err
    /\ ~PreFrom.Closed /\ PreTo.Closed
    /\ PreFrom.Balance < last.arg.Amount
    /\ ~IsPrefix(SourcePrefix, last.puts[1].key)
    /\ last.puts[1].ok
    /\ store[last.puts[1].key].FailureCode = AccountClosed

\* C16: a successful transfer issues its four Puts in a fixed order: the
\* debited source Account, the Debited Transaction on the source, the
\* credited destination Account, the Credited Transaction on the
\* destination; the Put of the credit never precedes the Put of the debit.
IsTransactionPut(put, account, status) ==
    /\ put.value.kind = "Transaction"
    /\ put.key = TransactionKey(put.value)
    /\ put.value.CustomerID = account.CustomerID
    /\ put.value.AccountID = account.ID
    /\ put.value.Status = status
    /\ put.value.FailureCode = NoFailure
C16_WriteOrder ==
    (BetweenExisting /\ ~last.err) =>
        /\ Len(last.puts) = 4
        /\ last.puts[1].key = AccountKey(PreFrom.CustomerID, PreFrom.ID)
        /\ last.puts[1].value = Debit(PreFrom, Wrap(last.arg.Amount + last.arg.Fee))
        /\ IsTransactionPut(last.puts[2], PreFrom, Debited)
        /\ last.puts[3].key = AccountKey(PreTo.CustomerID, PreTo.ID)
        /\ last.puts[3].value = Credit(PreTo, last.arg.Amount)
        /\ IsTransactionPut(last.puts[4], PreTo, Credited)
        /\ last.puts[2].value.CreatedAt < last.puts[4].value.CreatedAt
\* a successful transfer between two accounts under different keys, all four
\* Puts applied
C16_Witness ==
    /\ BetweenExisting /\ ~last.err
    /\ \A i \in 1..4 : last.puts[i].ok
    /\ last.puts[1].key # last.puts[3].key
    /\ PostFrom.Balance = PreFrom.Balance - last.arg.Amount - last.arg.Fee
    /\ PostTo.Balance = PreTo.Balance + last.arg.Amount

\* C19: the funds check leaves the fee out: a valid transfer between two
\* open accounts with amount <= source balance < amount + fee returns
\* success and leaves the source with the negative stored balance
\* source balance - amount - fee.
C19_FeeOverdraws ==
    (/\ BetweenExisting /\ ~PreFrom.Closed /\ ~PreTo.Closed
     /\ last.arg.Amount <= PreFrom.Balance
     /\ PreFrom.Balance < last.arg.Amount + last.arg.Fee) =>
        /\ ~last.err
        /\ PostFrom.Balance = PreFrom.Balance - last.arg.Amount - last.arg.Fee
        /\ PostFrom.Balance < 0

\* C20: TopupAccount and CloseAccount on a pair whose lookup finds no
\* account return an error and attempt no Put, so the store is as it was and
\* no record has been created.
C20_MissingAccountNoWrite ==
    (last.op \in {"TopupAccount", "CloseAccount"} /\ PreAccount = Nil) =>
        /\ last.err
        /\ last.puts = <<>>
        /\ store = last.pre
        /\ GetAccount(store, last.arg.CustomerID, last.arg.ID) = Nil
\* a TopupAccount with a well-formed amount on a pair that is not stored,
\* while another account is
C20_Witness ==
    /\ last.op = "TopupAccount" /\ PreAccount = Nil
    /\ ~ParseInt(last.arg.amount).err
    /\ last.err /\ store = last.pre /\ store # <<>>

\* C17: the two legs of a transfer are not atomic: when the invocation stops
\* after the debited source record and the Debited Transaction have been
\* Put and before the credit, the store holds the source debited by
\* amount + fee and the destination as it was, with no Credited Transaction;
\* and no invocation after it that is a read, a CloseAccount or a call
\* returning an error changes a balance or writes a Credited Transaction.
StoppedBetweenLegs ==
    /\ DOMAIN running = {1}
    /\ running[1].pc = "Stopped"
    /\ running[1].at = "CreditAccount"
StoppedFromKey == AccountKey(running[1].fromAccount.CustomerID, running[1].fromAccount.ID)
StoppedToKey == AccountKey(running[1].toAccount.CustomerID, running[1].toAccount.ID)
CreditedRecords(st) ==
    {k \in DOMAIN st : st[k].kind = "Transaction" /\ st[k].Status = Credited}
DebitedRecords(st) ==
    {k \in DOMAIN st : st[k].kind = "Transaction" /\ st[k].Status = Debited}
C17_StoppedBetweenLegs ==
    StoppedBetweenLegs =>
        /\ last.op = "Init" =>
              /\ store[StoppedFromKey].Balance
                   = running[1].fromAccount.Balance - running[1].arg.Amount
                       - running[1].arg.Fee
              /\ store[StoppedToKey] = running[1].toAccount
              /\ Cardinality(DebitedRecords(store)) = 1
              /\ \A k \in DebitedRecords(store) :
                    /\ IsPrefix(createCompositeKey(TransactionObjectType,
                                    <<running[1].arg.FromCustomerID,
                                      running[1].arg.FromAccountID>>), k)
                    /\ store[k].Amount = running[1].arg.Amount
              /\ CreditedRecords(store) = {}
        /\ (/\ last.op # "Init"
            /\ \/ last.err
               \/ last.op \in {"CloseAccount", "GetAccount", "GetAccountList",
                                "GetTransactionList"}) =>
              /\ Balances(store) = Balances(last.pre)
              /\ CreditedRecords(store) = CreditedRecords(last.pre)
\* a transfer with a fee stopped between its legs, and a GetTransactionList
\* after it: the source is still debited, the destination still not credited
C17_Witness ==
    /\ StoppedBetweenLegs
    /\ running[1].arg.Fee > 0
    /\ WasTransactionList
    /\ store[StoppedFromKey].Balance
         = running[1].fromAccount.Balance - running[1].arg.Amount - running[1].arg.Fee
    /\ store[StoppedToKey].Balance = running[1].toAccount.Balance
    /\ CreditedRecords(store) = {}

\* C18: nothing guards an account's read-modify-write: when two invocations
\* of TransferMoney or TopupAccount have both returned success, both wrote
\* the same account and both had read the same record of it, the stored
\* balance is the balance read changed by one invocation alone.
Completed(inv) == inv.pc = "Done" /\ ~inv.err
\* the record of the account under key that inv read, Nil when inv does not
\* write that account
ReadRecord(inv, key) ==
    IF inv.op = "TopupAccount"
    THEN IF AccountKey(inv.account.CustomerID, inv.account.ID) = key
         THEN inv.account ELSE Nil
    ELSE IF AccountKey(inv.fromAccount.CustomerID, inv.fromAccount.ID) = key
         THEN inv.fromAccount
    ELSE IF AccountKey(inv.toAccount.CustomerID, inv.toAccount.ID) = key
         THEN inv.toAccount ELSE Nil
\* what inv adds to the balance of the account under key
Delta(inv, key) ==
    IF inv.op = "TopupAccount" THEN ParseInt(inv.arg.amount).value
    ELSE IF AccountKey(inv.fromAccount.CustomerID, inv.fromAccount.ID) = key
         THEN 0 - DebitAmount(inv.arg)
    ELSE CreditAmount(inv.arg)
BothWrote(key) ==
    /\ DOMAIN running = {1, 2}
    /\ Completed(running[1]) /\ Completed(running[2])
    /\ ReadRecord(running[1], key) # Nil
    /\ ReadRecord(running[1], key) = ReadRecord(running[2], key)
C18_LostUpdate ==
    \A key \in DOMAIN store :
        (IsAccountKey(store, key) /\ BothWrote(key)) =>
            store[key].Balance \in
                {Wrap(ReadRecord(running[i], key).Balance + Delta(running[i], key)) :
                    i \in {1, 2}}
\* two successful invocations on one account, the stored balance showing
\* the second alone
C18_Witness ==
    \E key \in DOMAIN store :
        /\ IsAccountKey(store, key) /\ BothWrote(key)
        /\ store[key].Balance
             = ReadRecord(running[2], key).Balance + Delta(running[2], key)
        /\ store[key].Balance
             # ReadRecord(running[1], key).Balance + Delta(running[1], key)
                 + Delta(running[2], key)

\* C21: TransferMoney touches only the two accounts named in the transfer:
\* every other Account record is unchanged and every Transaction it writes
\* lies under the key prefix of the source or of the destination; a transfer
\* that returns success lowers the sum of all stored balances by exactly the
\* fee, and one that returns an error leaves the sum unchanged.
RECURSIVE SumBalances(_, _)
SumBalances(st, keys) ==
    IF keys = {} THEN 0
    ELSE LET k == CHOOSE x \in keys : TRUE
         IN  st[k].Balance + SumBalances(st, keys \ {k})
TotalBalance(st) == SumBalances(st, {k \in DOMAIN st : st[k].kind = "Account"})
NamedAccountKeys ==
    {AccountKey(last.arg.FromCustomerID, last.arg.FromAccountID),
     AccountKey(last.arg.ToCustomerID, last.arg.ToAccountID)}
TransferFrame ==
    /\ \A k \in DOMAIN last.pre :
          (IsAccountKey(last.pre, k) /\ k \notin NamedAccountKeys) =>
              k \in DOMAIN store /\ store[k] = last.pre[k]
    /\ \A k \in DOMAIN store :
          (IsAccountKey(store, k) /\ k \notin NamedAccountKeys) => k \in DOMAIN last.pre
    /\ \A i \in 1..Len(last.puts) :
          last.puts[i].value.kind = "Transaction" =>
              \/ IsPrefix(SourcePrefix, last.puts[i].key)
              \/ IsPrefix(DestinationPrefix, last.puts[i].key)
C21_TransferTouchesOnlyItsAccounts ==
    WasTransfer =>
        /\ TransferFrame
        /\ ~last.err => TotalBalance(store) = TotalBalance(last.pre) - last.arg.Fee
        /\ last.err => TotalBalance(store) = TotalBalance(last.pre)

====
